---- MODULE Spec2Model ----
(***************************************************************************)
(* Restaurant submission workflow of sandol_meal_service: the request      *)
(* handlers of app/routers/restaurants.py with their FastAPI dependencies  *)
(* (app/utils/db.py, app/utils/restaurants.py) over the tables of          *)
(* app/models.  Every request is a process whose steps are the points at   *)
(* which the handler touches the shared database; several requests run     *)
(* interleaved, each with its own SQLAlchemy session (expire_on_commit is  *)
(* False, so an object loaded by a request keeps the values it was read    *)
(* with).                                                                  *)
(***************************************************************************)
EXTENDS Integers, Sequences, FiniteSets, TLC

VARIABLES
    User,                   \* table "User": rows [id, meal_admin]
    Restaurant_submission,  \* table "Restaurant_submission"
    Restaurant,             \* table "Restaurant"
    operating_hours,        \* table "operating_hours"
    next_submission_id,     \* autoincrement of Restaurant_submission.id
    next_restaurant_id,     \* autoincrement of Restaurant.id
    origin,                 \* history: <<restaurant id, submission id>> of every approval that created a Restaurant
    received,               \* history: how many requests have arrived
    Meal,                   \* table "meal": rows [id, restaurant_id, meal_type, menu]
    RestaurantManager,      \* table "RestaurantManager": rows [restaurant_id, user_id]
    next_meal_id,           \* autoincrement of meal.id
    foreign_keys,           \* whether the database enforces foreign keys
    req                     \* the requests in flight, one record per worker slot

vars == <<User, Restaurant_submission, Restaurant, operating_hours,
          next_submission_id, next_restaurant_id, origin, received,
          Meal, RestaurantManager, next_meal_id, foreign_keys, req>>

\* The tables of the meals and of the managers, and the database's setting.
directory == <<Meal, RestaurantManager, next_meal_id, foreign_keys>>

db == <<User, Restaurant_submission, Restaurant, operating_hours,
        next_submission_id, next_restaurant_id, origin, directory>>

\* ------------------------------------------------------------------ bounds

MaxSubmissions == 1
MaxRestaurants == 2
MaxRequests == 2
MaxReceived == 3

\* ---------------------------------------------------------------- optionals

\* Python None / SQL NULL is the empty set, a present value x is {x}.
None == {}
Some(x) == {x}
The(o) == CHOOSE x \in o : TRUE

\* ------------------------------------------------------------ HTTP statuses

OK == 200
CREATED == 201
NO_CONTENT == 204
BAD_REQUEST == 400
UNAUTHORIZED == 401
FORBIDDEN == 403
NOT_FOUND == 404
INTERNAL_SERVER_ERROR == 500

\* A response: the status code and which raise (or return) produced it.
Response(code, detail) == [status_code |-> code, detail |-> detail]

\* -------------------------------------------------------------------- users

DebugAdminId == 1
ServiceId == 6
\* The ids a request may carry in X-User-ID: the id is_global_admin knows in
\* debug mode, the service account, and one account that is neither.
UserIds == {DebugAdminId, 2, ServiceId}

\* What the user service answers to /users/{id}/is_global_admin when it answers.
GlobalAdmins == {DebugAdminId}

UserRow(id) == [id |-> id, meal_admin |-> FALSE]

SubmissionIds == 1..MaxSubmissions
RestaurantIds == 1..MaxRestaurants
Reqs == 1..MaxRequests

\* -------------------------------------------------------------------- times

\* The "HH:MM" texts a request may carry, with what strptime("%H:%M") reads
\* from each ("9:00" parses like "09:00"; "xx" does not parse).
TimeTable == {
    [text |-> "00:00", hour |-> 0,  minute |-> 0,  padded |-> TRUE],
    [text |-> "06:00", hour |-> 6,  minute |-> 0,  padded |-> TRUE],
    [text |-> "09:00", hour |-> 9,  minute |-> 0,  padded |-> TRUE],
    [text |-> "9:00",  hour |-> 9,  minute |-> 0,  padded |-> FALSE],
    [text |-> "11:30", hour |-> 11, minute |-> 30, padded |-> TRUE],
    [text |-> "13:00", hour |-> 13, minute |-> 0,  padded |-> TRUE],
    [text |-> "21:00", hour |-> 21, minute |-> 0,  padded |-> TRUE],
    [text |-> "22:00", hour |-> 22, minute |-> 0,  padded |-> TRUE],
    [text |-> "23:59", hour |-> 23, minute |-> 59, padded |-> TRUE] }

\* datetime.strptime(time_str, "%H:%M"): the time of day in minutes, or None
\* when strptime raises ValueError.
get_datetime_by_string(time_str) ==
    LET hit == {t \in TimeTable : t.text = time_str}
    IN  IF hit = {} THEN None
        ELSE Some(The(hit).hour * 60 + The(hit).minute)

\* datetime.strftime("%H:%M"): always the zero-padded text.
strftime(minutes) ==
    LET hit == {t \in TimeTable :
                   /\ t.padded
                   /\ t.hour * 60 + t.minute = minutes}
    IN  The(hit).text

SlotOrder == <<"opening_time", "break_time", "breakfast_time",
               "brunch_time", "lunch_time", "dinner_time">>
SlotTypes == {SlotOrder[i] : i \in 1..Len(SlotOrder)}

TimeRange(start, end) == [start |-> start, end |-> end]

OperatingHoursRow(type, start_time, end_time, restaurant_id, submission_id) ==
    [type |-> type, start_time |-> start_time, end_time |-> end_time,
     restaurant_id |-> restaurant_id, submission_id |-> submission_id]

\* validate_time_range: the OperatingHours entry, or the exception raised.
\* value.to_datetime() raises ValueError on an unparseable text; start >= end
\* raises HTTPException(400); the 00:00..23:59 check cannot fail once both
\* texts parsed; value.to_string() turns both back into "%H:%M" texts before
\* the entry is built.
validate_time_range(key, value) ==
    LET start == get_datetime_by_string(value.start)
        end   == get_datetime_by_string(value.end)
    IN  IF start = None \/ end = None
        THEN [exc |-> Some("ValueError"), entry |-> None]
        ELSE IF The(start) >= The(end)
        THEN [exc |-> Some("HTTPException400"), entry |-> None]
        ELSE IF ~(/\ The(get_datetime_by_string("00:00")) <= The(start)
                  /\ The(start) <= The(get_datetime_by_string("23:59"))
                  /\ The(get_datetime_by_string("00:00")) <= The(end)
                  /\ The(end) <= The(get_datetime_by_string("23:59")))
        THEN [exc |-> Some("HTTPException400"), entry |-> None]
        ELSE [exc |-> None,
              entry |-> Some(OperatingHoursRow(key, strftime(The(start)),
                                               strftime(The(end)), None, None))]

\* build_operating_hours_entries: every present slot validated in dict order,
\* the first exception ending the loop; each entry gets both ids as passed.
RECURSIVE build_entries_from(_, _, _, _)
build_entries_from(i, operation_hours_dict, submission_id, restaurant_id) ==
    IF i > Len(SlotOrder) THEN [exc |-> None, entries |-> {}]
    ELSE LET key   == SlotOrder[i]
             value == operation_hours_dict[key]
         IN  IF value = None
             THEN build_entries_from(i + 1, operation_hours_dict,
                                     submission_id, restaurant_id)
             ELSE LET v == validate_time_range(key, The(value))
                  IN  IF v.exc # None THEN [exc |-> v.exc, entries |-> {}]
                      ELSE LET rest == build_entries_from(i + 1, operation_hours_dict,
                                                          submission_id, restaurant_id)
                               entry == [The(v.entry) EXCEPT
                                            !.submission_id = submission_id,
                                            !.restaurant_id = restaurant_id]
                           IN  IF rest.exc # None THEN rest
                               ELSE [exc |-> None,
                                     entries |-> {entry} \cup rest.entries]

\* The builder leaving out a slot that does not validate and going on with
\* the slots after it.
RECURSIVE build_entries_skipping(_, _, _, _)
build_entries_skipping(i, operation_hours_dict, submission_id, restaurant_id) ==
    IF i > Len(SlotOrder) THEN [exc |-> None, entries |-> {}]
    ELSE LET key   == SlotOrder[i]
             value == operation_hours_dict[key]
             rest  == build_entries_skipping(i + 1, operation_hours_dict,
                                             submission_id, restaurant_id)
         IN  IF value = None THEN rest
             ELSE LET v == validate_time_range(key, The(value))
                  IN  IF v.exc # None THEN rest
                      ELSE [exc |-> None,
                            entries |-> {[The(v.entry) EXCEPT
                                             !.submission_id = submission_id,
                                             !.restaurant_id = restaurant_id]}
                                        \cup rest.entries]

build_operating_hours_entries_keep_valid(operation_hours_dict, submission_id, restaurant_id) ==
    build_entries_skipping(1, operation_hours_dict, submission_id, restaurant_id)

\* The builder with the submission id written into both foreign keys.
build_operating_hours_entries_both_keys(operation_hours_dict, submission_id, restaurant_id) ==
    build_entries_from(1, operation_hours_dict, submission_id, submission_id)

build_operating_hours_entries(operation_hours_dict, submission_id, restaurant_id) ==
    build_entries_from(1, operation_hours_dict, submission_id, restaurant_id)

\* CheckConstraint check_one_foreign_key_not_null of table operating_hours.
check_one_foreign_key_not_null(row) ==
    \/ row.restaurant_id # None /\ row.submission_id = None
    \/ row.restaurant_id = None /\ row.submission_id # None

\* ----------------------------------------------------------------- requests

\* Location bodies (schemas.restaurants.Location) a submit request may carry.
CampusLocation ==
    [is_campus |-> TRUE, building |-> Some("E-dong"),
     map_links |-> Some([naver |-> Some("naver/cafe-a"), kakao |-> None]),
     latitude |-> None, longitude |-> None]
TownLocation ==
    [is_campus |-> FALSE, building |-> None, map_links |-> None,
     latitude |-> Some(37), longitude |-> Some(126)]

\* A RestaurantRequest body with the two slots the requests here use; the
\* other four slots are absent.
RestaurantRequest(name, establishment_type, location, opening_time, lunch_time) ==
    [name |-> name, establishment_type |-> establishment_type,
     location |-> location,
     opening_time |-> opening_time, break_time |-> None, breakfast_time |-> None,
     brunch_time |-> None, lunch_time |-> lunch_time, dinner_time |-> None]

CafeA(location, opening_time, lunch_time) ==
    RestaurantRequest("Cafe A", "student", location, opening_time, lunch_time)

\* The RestaurantRequest bodies of POST /restaurants/requests: complete ones,
\* ones missing a required field, and ones with a slot that does not validate.
RestaurantRequests == {
    CafeA(Some(CampusLocation), Some(TimeRange("09:00", "21:00")), None),
    CafeA(Some(CampusLocation), Some(TimeRange("9:00", "21:00")),
          Some(TimeRange("11:30", "13:00"))),
    RestaurantRequest("Bistro B", "vendor", Some(TownLocation),
                      Some(TimeRange("09:00", "21:00")), None),
    CafeA(None, Some(TimeRange("09:00", "21:00")), None),
    CafeA(Some(CampusLocation), None, Some(TimeRange("11:30", "13:00"))),
    CafeA(Some(CampusLocation), Some(TimeRange("22:00", "06:00")), None),
    CafeA(Some(CampusLocation), Some(TimeRange("xx", "21:00")), None),
    CafeA(Some(CampusLocation), Some(TimeRange("09:00", "21:00")),
          Some(TimeRange("13:00", "11:30"))) }

\* The RejectRestaurantRequest.message texts of a rejection.
Messages == {"", "closed"}

Kinds == {"submit", "approve", "reject", "get", "delete"}

IdleRequest ==
    [pc |-> "idle", kind |-> "none", x_user_id |-> None, request_id |-> None,
     request |-> None, message |-> None, current_user |-> None,
     submission |-> None, restaurant |-> None, meal |-> None, user |-> None,
     new_id |-> None, user_info |-> None, response |-> None]

NewRequest(kind, x_user_id, request_id, request, message, pc) ==
    [IdleRequest EXCEPT !.pc = pc, !.kind = kind, !.x_user_id = x_user_id,
                        !.request_id = request_id, !.request = request,
                        !.message = message]

\* The handler raised or returned: the response is ready to be sent.
Respond(r, code, detail) ==
    [req EXCEPT ![r].pc = "respond", ![r].response = Some(Response(code, detail))]

\* Requests received so far that may still insert a submission / a restaurant.
PendingInserts(kind) ==
    Cardinality({r \in Reqs : /\ req[r].kind = kind
                              /\ req[r].pc \notin {"idle", "respond"}
                              /\ req[r].new_id = None})

\* --------------------------------------------------------------- row makers

MapLink(location, site) ==
    IF location.map_links = None THEN None ELSE The(location.map_links)[site]

\* datetime.now(timezone.utc) as a column default reads it when the row with
\* this id is inserted.
now_at_insert(id) == <<"now_at_insert", id>>

\* RestaurantSubmission(...) as restaurant_submit_request builds it; reviewer
\* and rejection_message are left NULL, submitted_time and reviewed_time are
\* left to their column defaults, which both read the clock at the insert.
new_submission(id, request, current_user) ==
    LET location == The(request.location)
    IN  [id |-> id, name |-> request.name, status |-> "pending",
         submitter |-> current_user.id,
         submitted_time |-> now_at_insert(id),
         reviewer |-> None, reviewed_time |-> Some(now_at_insert(id)),
         rejection_message |-> None,
         establishment_type |-> request.establishment_type,
         is_campus |-> location.is_campus,
         building_name |-> location.building,
         naver_map_link |-> MapLink(location, "naver"),
         kakao_map_link |-> MapLink(location, "kakao"),
         latitude |-> location.latitude, longitude |-> location.longitude]

\* Restaurant(...) as restaurant_submit_approval builds it from the loaded submission.
new_restaurant(id, submission) ==
    [id |-> id, name |-> submission.name, owner |-> submission.submitter,
     establishment_type |-> submission.establishment_type,
     is_campus |-> submission.is_campus,
     building_name |-> submission.building_name,
     naver_map_link |-> submission.naver_map_link,
     kakao_map_link |-> submission.kakao_map_link,
     latitude |-> submission.latitude, longitude |-> submission.longitude]

\* operation_hours_dict of restaurant_submit_request.
operation_hours_dict(request) == [key \in SlotTypes |-> request[key]]

\* The copies bound to a submission instead of the restaurant.
approval_operating_hours_entries_reparented(rows, restaurant_id) ==
    {[type |-> oh.type, start_time |-> oh.start_time, end_time |-> oh.end_time,
      restaurant_id |-> None, submission_id |-> Some(restaurant_id)] : oh \in rows}

\* The copies restaurant_submit_approval makes of the submission's rows.
approval_operating_hours_entries(rows, restaurant_id) ==
    {OperatingHoursRow(oh.type, oh.start_time, oh.end_time, Some(restaurant_id), None)
        : oh \in rows}

SubmissionById(id) == {s \in Restaurant_submission : s.id = id}
UserById(id) == {u \in User : u.id = id}
HoursOfSubmission(id) == {oh \in operating_hours : oh.submission_id = Some(id)}
HoursOfRestaurant(id) == {oh \in operating_hours : oh.restaurant_id = Some(id)}

\* ---------------------------------------------------------------- admin check

\* The global-admin lookup taking an unanswered request for a yes.
is_global_admin_fail_open(user_id, answered) ==
    IF ~answered THEN "true"
    ELSE IF user_id \in GlobalAdmins THEN "true" ELSE "false"

\* is_global_admin: the user service's answer, or the HTTPException(500) raised
\* when the call fails.
is_global_admin(user_id, answered) ==
    IF ~answered THEN "error"
    ELSE IF user_id \in GlobalAdmins THEN "true" ELSE "false"

\* The admin check letting every user through.
check_admin_user_everyone(user, answered) == None

\* check_admin_user(user, client): None when it returns True, else the
\* HTTPException raised.  The lookup is made only when meal_admin is false.
check_admin_user(user, answered) ==
    IF user.meal_admin THEN None
    ELSE LET lookup == is_global_admin(user.id, answered)
         IN  IF lookup = "error"
             THEN Some(Response(INTERNAL_SERVER_ERROR, "is_global_admin"))
             ELSE IF lookup = "true" THEN None
             ELSE Some(Response(FORBIDDEN, "admin_required"))

\* ------------------------------------------------------------------- actions

Init ==
    /\ User = {[id |-> ServiceId, meal_admin |-> TRUE]}
    /\ Restaurant_submission = {}
    /\ Restaurant = {}
    /\ operating_hours = {}
    /\ next_submission_id = 1
    /\ next_restaurant_id = 1
    /\ origin = {}
    /\ received = 0
    /\ Meal = {}
    /\ RestaurantManager = {}
    /\ next_meal_id = 1
    /\ foreign_keys \in BOOLEAN
    /\ req = [r \in Reqs |-> IdleRequest]

\* A request arrives and is taken by the first idle worker.
Receive(r) ==
    /\ req[r].pc = "idle"
    /\ \A q \in Reqs : q < r => req[q].pc # "idle"
    /\ received < MaxReceived
    /\ received' = received + 1
    /\ \E x_user_id \in {None} \cup {Some(u) : u \in UserIds} :
        \/ /\ next_submission_id + PendingInserts("submit") <= MaxSubmissions
           /\ \E request \in RestaurantRequests :
                req' = [req EXCEPT ![r] = NewRequest("submit", x_user_id, None,
                                             Some(request), None, "get_current_user")]
        \/ /\ next_restaurant_id + PendingInserts("approve") <= MaxRestaurants
           /\ \E request_id \in SubmissionIds :
                req' = [req EXCEPT ![r] = NewRequest("approve", x_user_id, Some(request_id),
                                             None, None, "get_submission_or_404")]
        \/ \E request_id \in SubmissionIds, message \in Messages :
                req' = [req EXCEPT ![r] = NewRequest("reject", x_user_id, Some(request_id),
                                             None, Some(message), "get_submission_or_404")]
        \/ \E request_id \in SubmissionIds, kind \in {"get", "delete"} :
                req' = [req EXCEPT ![r] = NewRequest(kind, x_user_id, Some(request_id),
                                             None, None, "get_current_user")]
    /\ UNCHANGED db

\* The response leaves; the worker is idle again.
Send(r) ==
    /\ req[r].pc = "respond"
    /\ req' = [req EXCEPT ![r] = IdleRequest]
    /\ UNCHANGED <<db, received>>

\* Where a request goes once its user is known.
AfterUser(kind) ==
    CASE kind \in {"approve", "reject"} -> "check_admin_user"
      [] kind \in {"get", "delete"}     -> "get_submission_with_permission"
      [] kind \in {"delete_restaurant", "register_meal"}
                                        -> "get_restaurant_with_permission"
      [] kind \in {"delete_meal", "delete_menu", "edit_meal_menu"}
                                        -> "get_meal"
      [] OTHER                          -> "handler"

\* get_submission_or_404 (approve, reject): the row is loaded into the session.
GetSubmissionOr404(r) ==
    /\ req[r].pc = "get_submission_or_404"
    /\ LET hit == SubmissionById(The(req[r].request_id))
       IN  IF hit = {}
           THEN req' = Respond(r, NOT_FOUND, "submission_not_found")
           ELSE req' = [req EXCEPT ![r].submission = Some(The(hit)),
                                   ![r].pc = "get_current_user"]
    /\ UNCHANGED <<db, received>>

\* A failed lookup taken for an answer: the request goes on to insert the user.
get_user_info_failed_goes_on(r) ==
    [req EXCEPT ![r].pc = "insert_user"]

\* get_or_create_user, `except Exception` around get_user_info: what
\* get_user_info raises (the HTTPException(500) of a failed raise_for_status,
\* a transport error, a body that is no UserSchema) is caught, the session is
\* rolled back and HTTPException(500) is raised.
get_user_info_failed(r) ==
    Respond(r, INTERNAL_SERVER_ERROR, "get_user_info")

\* get_current_user -> get_or_create_user up to the insert: 401 without the
\* header; the stored user if there is one; else get_user_info asks the user
\* service, whose failure is re-raised as 500; its answer is kept in user_info.
GetCurrentUser(r) ==
    /\ req[r].pc = "get_current_user"
    /\ IF req[r].x_user_id = None
       THEN req' = Respond(r, UNAUTHORIZED, "x_user_id_required")
       ELSE LET hit == UserById(The(req[r].x_user_id))
            IN  IF hit # {}
                THEN req' = [req EXCEPT ![r].current_user = Some(The(hit)),
                                        ![r].pc = AfterUser(req[r].kind)]
                ELSE \E known \in BOOLEAN :
                        req' = IF known
                               THEN [req EXCEPT ![r].pc = "insert_user",
                                                ![r].user_info =
                                                    Some([id |-> The(req[r].x_user_id)])]
                               ELSE get_user_info_failed(r)
    /\ UNCHANGED <<db, received>>

\* The IntegrityError of a lost insert answered with 500 at once.
reread_after_integrity_error_fails(r, hit) ==
    [Respond(r, INTERNAL_SERVER_ERROR, "user_commit") EXCEPT ![r].user_info = None]

\* get_or_create_user, except IntegrityError: rollback, the row is read again
\* and the request goes on with it.
reread_after_integrity_error(r, hit) ==
    [req EXCEPT ![r].current_user = Some(The(hit)),
                ![r].user_info = None,
                ![r].pc = AfterUser(req[r].kind)]

\* get_or_create_user, db.add(user) and commit: IntegrityError when another
\* request inserted the id meanwhile, then the row is read again; any other
\* failure is a 500.
InsertUser(r) ==
    /\ req[r].pc = "insert_user"
    /\ LET id  == The(req[r].x_user_id)
           hit == UserById(id)
       IN  IF hit # {}
           THEN /\ req' = reread_after_integrity_error(r, hit)
                /\ UNCHANGED User
           ELSE \E commit_ok \in BOOLEAN :
                   IF commit_ok
                   THEN /\ User' = User \cup {UserRow(id)}
                        /\ req' = [req EXCEPT ![r].current_user = Some(UserRow(id)),
                                              ![r].user_info = None,
                                              ![r].pc = AfterUser(req[r].kind)]
                   ELSE /\ req' = [Respond(r, INTERNAL_SERVER_ERROR, "user_commit")
                                      EXCEPT ![r].user_info = None]
                        /\ UNCHANGED User
    /\ UNCHANGED <<Restaurant_submission, Restaurant, operating_hours,
                   next_submission_id, next_restaurant_id, origin, received, directory>>

\* get_admin_user after get_current_user: check_admin_user(user, client).
CheckAdminUser(r) ==
    /\ req[r].pc = "check_admin_user"
    /\ \E answered \in BOOLEAN :
          LET raised == check_admin_user(The(req[r].current_user), answered)
          IN  req' = IF raised = None
                     THEN [req EXCEPT ![r].pc = "handler"]
                     ELSE Respond(r, The(raised).status_code, The(raised).detail)
    /\ UNCHANGED <<db, received>>

\* get_submission_with_permission's decision for a loaded submission: None
\* when the submission is returned, else what is raised.  The submitter is
\* let through by the first operand of the `or`; for anyone else the second
\* operand calls check_admin_user(current_user) without its required `client`
\* argument, which raises TypeError before any admin check is made: the
\* request ends as an unhandled 500 and the 403 below it is never reached.
submission_permission(submission, current_user) ==
    IF submission.submitter = current_user.id THEN None
    ELSE Some(Response(INTERNAL_SERVER_ERROR, "TypeError"))

\* get_submission_with_permission (get, delete).  A granted get goes on to
\* fetch_restaurant_submission and returns the submission.
GetSubmissionWithPermission(r) ==
    /\ req[r].pc = "get_submission_with_permission"
    /\ LET hit == SubmissionById(The(req[r].request_id))
       IN  IF hit = {}
           THEN req' = Respond(r, NOT_FOUND, "submission_not_found")
           ELSE LET raised == submission_permission(The(hit), The(req[r].current_user))
                IN  IF raised # None
                    THEN req' = Respond(r, The(raised).status_code, The(raised).detail)
                    ELSE IF req[r].kind = "get"
                    THEN req' = [Respond(r, OK, "submission")
                                    EXCEPT ![r].submission = Some(The(hit))]
                    ELSE req' = [req EXCEPT ![r].submission = Some(The(hit)),
                                            ![r].pc = "handler"]
    /\ UNCHANGED <<db, received>>

\* The test for required fields with opening_time left out of it.
required_fields_missing_location_only(request) == request.location = None

\* restaurant_submit_request: `request.location is None or
\* request.opening_time is None`.
required_fields_missing(request) ==
    request.location = None \/ request.opening_time = None

\* restaurant_submit_request up to its first commit: the required fields,
\* then the submission row is inserted and committed on its own.
SubmitRequest(r) ==
    /\ req[r].pc = "handler"
    /\ req[r].kind = "submit"
    /\ LET request == The(req[r].request)
       IN  IF required_fields_missing(request)
           THEN /\ req' = Respond(r, BAD_REQUEST, "location_opening_time_required")
                /\ UNCHANGED <<Restaurant_submission, next_submission_id>>
           ELSE \E commit_ok \in BOOLEAN :
                   IF commit_ok
                   THEN /\ Restaurant_submission' = Restaurant_submission \cup
                              {new_submission(next_submission_id, request,
                                              The(req[r].current_user))}
                        /\ next_submission_id' = next_submission_id + 1
                        /\ req' = [req EXCEPT ![r].new_id = Some(next_submission_id),
                                              ![r].pc = "operating_hours"]
                   ELSE /\ req' = Respond(r, INTERNAL_SERVER_ERROR, "server_error")
                        /\ UNCHANGED <<Restaurant_submission, next_submission_id>>
    /\ UNCHANGED <<User, Restaurant, operating_hours, next_restaurant_id, origin, received, directory>>

\* restaurant_submit_request after its first commit: the entries are built
\* (any exception, the validator's HTTPException(400) included, is caught by
\* `except Exception` and answered 500 after a rollback that has only the
\* uncommitted work to undo), added and committed.  The insert fails on the
\* CHECK constraint; where the database enforces foreign keys it also fails
\* when the submission row is gone (SQLite does not unless told to).
SubmitOperatingHours(r) ==
    /\ req[r].pc = "operating_hours"
    /\ req[r].kind = "submit"
    /\ LET built == build_operating_hours_entries(
                        operation_hours_dict(The(req[r].request)), req[r].new_id, None)
       IN  IF built.exc # None
           THEN /\ req' = Respond(r, INTERNAL_SERVER_ERROR, "server_error")
                /\ UNCHANGED operating_hours
           ELSE \E commit_ok \in BOOLEAN :
                   IF /\ commit_ok
                      /\ \A row \in built.entries : check_one_foreign_key_not_null(row)
                      /\ foreign_keys => SubmissionById(The(req[r].new_id)) # {}
                   THEN /\ operating_hours' = operating_hours \cup built.entries
                        /\ req' = Respond(r, CREATED, "request_id")
                   ELSE /\ req' = Respond(r, INTERNAL_SERVER_ERROR, "server_error")
                        /\ UNCHANGED operating_hours
    /\ UNCHANGED <<User, Restaurant_submission, Restaurant,
                   next_submission_id, next_restaurant_id, origin, received, directory>>

\* restaurant_submit_approval up to its first commit.  The status tested is
\* the one the session loaded; the UPDATE the commit flushes sets the changed
\* columns of the row with this id (StaleDataError when no row has it) and the
\* new Restaurant is inserted in the same transaction, which fails where
\* foreign keys are enforced and its owner is no stored user.
Approval(r) ==
    /\ req[r].pc = "handler"
    /\ req[r].kind = "approve"
    /\ LET submission == The(req[r].submission)
           stored     == SubmissionById(submission.id)
       IN  IF submission.status # "pending"
           THEN /\ req' = Respond(r, BAD_REQUEST, "already_processed")
                /\ UNCHANGED <<Restaurant_submission, Restaurant, next_restaurant_id, origin>>
           ELSE \E commit_ok \in BOOLEAN :
                   IF /\ commit_ok /\ stored # {}
                      /\ foreign_keys => UserById(submission.submitter) # {}
                   THEN /\ Restaurant_submission' =
                              (Restaurant_submission \ stored) \cup
                              {[The(stored) EXCEPT
                                   !.status = "approved",
                                   !.reviewer = Some(The(req[r].current_user).id)]}
                        /\ Restaurant' = Restaurant \cup
                              {new_restaurant(next_restaurant_id, submission)}
                        /\ next_restaurant_id' = next_restaurant_id + 1
                        /\ origin' = origin \cup {<<next_restaurant_id, submission.id>>}
                        /\ req' = [req EXCEPT ![r].new_id = Some(next_restaurant_id),
                                              ![r].pc = "operating_hours"]
                   ELSE /\ req' = Respond(r, INTERNAL_SERVER_ERROR, "server_error")
                        /\ UNCHANGED <<Restaurant_submission, Restaurant,
                                       next_restaurant_id, origin>>
    /\ UNCHANGED <<User, operating_hours, next_submission_id, received, directory>>

\* restaurant_submit_approval after its first commit: the submission's rows
\* are read and their copies committed in a second transaction; a failure
\* rolls back that transaction only.
ApprovalOperatingHours(r) ==
    /\ req[r].pc = "operating_hours"
    /\ req[r].kind = "approve"
    /\ LET entries == approval_operating_hours_entries(
                          HoursOfSubmission(The(req[r].request_id)), The(req[r].new_id))
       IN  \E commit_ok \in BOOLEAN :
              IF /\ commit_ok
                 /\ \A row \in entries : check_one_foreign_key_not_null(row)
              THEN /\ operating_hours' = operating_hours \cup entries
                   /\ req' = Respond(r, OK, "restaurant_id")
              ELSE /\ req' = Respond(r, INTERNAL_SERVER_ERROR, "server_error")
                   /\ UNCHANGED operating_hours
    /\ UNCHANGED <<User, Restaurant_submission, Restaurant,
                   next_submission_id, next_restaurant_id, origin, received, directory>>

\* The rejection written with the reviewer as the new submitter as well.
rejected_and_taken_over(stored, current_user, rejection_message) ==
    [stored EXCEPT !.status = "rejected",
                   !.reviewer = Some(current_user.id),
                   !.rejection_message = Some(rejection_message),
                   !.submitter = current_user.id]

\* restaurant_submit_rejection: the three assignments to the submission.
rejected(stored, current_user, rejection_message) ==
    [stored EXCEPT !.status = "rejected",
                   !.reviewer = Some(current_user.id),
                   !.rejection_message = Some(rejection_message)]

\* restaurant_submit_rejection: the loaded status, then the message, then the
\* UPDATE of the row with this id.
Rejection(r) ==
    /\ req[r].pc = "handler"
    /\ req[r].kind = "reject"
    /\ LET submission == The(req[r].submission)
           stored     == SubmissionById(submission.id)
           rejection_message == The(req[r].message)
       IN  IF submission.status # "pending"
           THEN /\ req' = Respond(r, BAD_REQUEST, "already_processed")
                /\ UNCHANGED Restaurant_submission
           ELSE IF rejection_message = ""
           THEN /\ req' = Respond(r, BAD_REQUEST, "message_required")
                /\ UNCHANGED Restaurant_submission
           ELSE \E commit_ok \in BOOLEAN :
                   IF commit_ok /\ stored # {}
                   THEN /\ Restaurant_submission' =
                              (Restaurant_submission \ stored) \cup
                              {rejected(The(stored), The(req[r].current_user),
                                        rejection_message)}
                        /\ req' = Respond(r, NO_CONTENT, "")
                   ELSE /\ req' = Respond(r, INTERNAL_SERVER_ERROR, "server_error")
                        /\ UNCHANGED Restaurant_submission
    /\ UNCHANGED <<User, Restaurant, operating_hours,
                   next_submission_id, next_restaurant_id, origin, received, directory>>

\* restaurant_submit_delete: db.delete(submission) with the delete cascade of
\* RestaurantSubmission.operating_hours, and the commit.  No status is tested.
SubmitDelete(r) ==
    /\ req[r].pc = "handler"
    /\ req[r].kind = "delete"
    /\ LET id == The(req[r].request_id)
       IN  \E commit_ok \in BOOLEAN :
              IF commit_ok
              THEN /\ Restaurant_submission' = Restaurant_submission \ SubmissionById(id)
                   /\ operating_hours' = operating_hours \ HoursOfSubmission(id)
                   /\ req' = Respond(r, NO_CONTENT, "")
              ELSE /\ req' = Respond(r, INTERNAL_SERVER_ERROR, "commit")
                   /\ UNCHANGED <<Restaurant_submission, operating_hours>>
    /\ UNCHANGED <<User, Restaurant, next_submission_id, next_restaurant_id, origin, received, directory>>

Next ==
    \E r \in Reqs :
        \/ Receive(r)
        \/ GetSubmissionOr404(r)
        \/ GetCurrentUser(r)
        \/ InsertUser(r)
        \/ CheckAdminUser(r)
        \/ GetSubmissionWithPermission(r)
        \/ SubmitRequest(r)
        \/ SubmitOperatingHours(r)
        \/ Approval(r)
        \/ ApprovalOperatingHours(r)
        \/ Rejection(r)
        \/ SubmitDelete(r)
        \/ Send(r)

Spec == Init /\ [][Next]_vars

\* ================================================================ directory
\* Restaurants in service: their deletion, their meals, and the removal of
\* users (app/routers/restaurants.py, app/routers/meals.py,
\* app/routers/users.py), together with the approval of a submission.

MaxMeals == 2
MealIds == 1..MaxMeals

\* The accounts of the directory: the owner of restaurant 1, its manager, an
\* account with neither role that is not stored yet, and the service account
\* send requests; one more stored account has a submission pending.
OwnerId == 2
ManagerId == 3
SubmitterId == 5
DirectoryUserIds == {OwnerId, ManagerId, 4, ServiceId}

\* The ids of the submissions the directory starts with.
DirectorySubmissionIds == {1, 2}

\* The names in table meal_type, and the names a register request may carry.
MealTypes == {"breakfast", "brunch", "lunch", "dinner"}
MealTypeNames == {"lunch", "supper"}

\* The menu lists a request body may carry.
Menus == {<<"soup", "kimchi">>}

MealRow(id, restaurant_id, meal_type, menu) ==
    [id |-> id, restaurant_id |-> restaurant_id, meal_type |-> meal_type, menu |-> menu]

ManagerRow(restaurant_id, user_id) == [restaurant_id |-> restaurant_id, user_id |-> user_id]

\* `x in list` of Python.
In(x, list) == \E k \in 1..Len(list) : list[k] = x

\* list.remove(x): the list without its first x.
RECURSIVE remove(_, _)
remove(list, x) ==
    IF list = <<>> THEN <<>>
    ELSE IF Head(list) = x THEN Tail(list)
    ELSE <<Head(list)>> \o remove(Tail(list), x)

\* update_meal_menu: each item of the edit list not yet in the menu is appended.
RECURSIVE update_menu_from(_, _, _)
update_menu_from(i, menu_list, menu_edit_list) ==
    IF i > Len(menu_edit_list) THEN menu_list
    ELSE update_menu_from(i + 1,
                          IF In(menu_edit_list[i], menu_list) THEN menu_list
                          ELSE Append(menu_list, menu_edit_list[i]),
                          menu_edit_list)

\* The edit appending every requested item, present in the menu or not.
update_meal_menu_append_all(meal, menu_edit_list) == meal.menu \o menu_edit_list

update_meal_menu(meal, menu_edit_list) == update_menu_from(1, meal.menu, menu_edit_list)

\* delete_meal_menu: for each item of the delete list that is in the menu, its
\* first occurrence is removed.
RECURSIVE delete_menu_from(_, _, _)
delete_menu_from(i, menu_list, menu_delete_list) ==
    IF i > Len(menu_delete_list) THEN menu_list
    ELSE delete_menu_from(i + 1,
                          IF In(menu_delete_list[i], menu_list)
                          THEN remove(menu_list, menu_delete_list[i])
                          ELSE menu_list,
                          menu_delete_list)

delete_meal_menu(meal, menu_delete_list) == delete_menu_from(1, meal.menu, menu_delete_list)

RestaurantById(id) == {x \in Restaurant : x.id = id}
MealById(id) == {m \in Meal : m.id = id}
\* Restaurant.managers: the User rows joined through RestaurantManager.
ManagersOf(id) ==
    {m.user_id : m \in {x \in RestaurantManager :
                            x.restaurant_id = id /\ UserById(x.user_id) # {}}}
MealsOf(id) == {m \in Meal : m.restaurant_id = id}

\* The submissions the directory starts with, as restaurant_submit_request
\* and restaurant_submit_approval leave them: submission 1 of the owner,
\* approved by the service account into restaurant 1, and submission 2 of
\* another account, still pending.
SeedRequest1 ==
    CafeA(Some(CampusLocation), Some(TimeRange("9:00", "21:00")),
          Some(TimeRange("11:30", "13:00")))
SeedRequest2 ==
    RestaurantRequest("Bistro B", "vendor", Some(TownLocation),
                      Some(TimeRange("09:00", "21:00")), None)
SeedSubmission1 ==
    [new_submission(1, SeedRequest1, UserRow(OwnerId))
        EXCEPT !.status = "approved", !.reviewer = Some(ServiceId)]
SeedSubmission2 == new_submission(2, SeedRequest2, UserRow(SubmitterId))
SeedSubmissionHours(id, request) ==
    build_operating_hours_entries(operation_hours_dict(request), Some(id), None).entries

\* The directory: the database after the two submissions, the approval of the
\* first, a manager given to restaurant 1 and one meal registered for it.  The
\* service writes no RestaurantManager row itself; it reads and removes them.
InitDirectory ==
    /\ User = {[id |-> ServiceId, meal_admin |-> TRUE],
               UserRow(OwnerId), UserRow(ManagerId), UserRow(SubmitterId)}
    /\ Restaurant_submission = {SeedSubmission1, SeedSubmission2}
    /\ Restaurant = {new_restaurant(1, SeedSubmission1)}
    /\ operating_hours =
          SeedSubmissionHours(1, SeedRequest1) \cup SeedSubmissionHours(2, SeedRequest2)
          \cup approval_operating_hours_entries(SeedSubmissionHours(1, SeedRequest1), 1)
    /\ next_submission_id = 3
    /\ next_restaurant_id = 2
    /\ origin = {<<1, 1>>}
    /\ received = 0
    /\ Meal = {MealRow(1, 1, "lunch", <<"rice", "soup">>)}
    /\ RestaurantManager = {ManagerRow(1, ManagerId)}
    /\ next_meal_id = 2
    /\ foreign_keys \in BOOLEAN
    /\ req = [r \in Reqs |-> IdleRequest]

\* A request about a restaurant or a meal arrives and is taken by the first
\* idle worker.
ReceiveDirectory(r) ==
    /\ req[r].pc = "idle"
    /\ \A q \in Reqs : q < r => req[q].pc # "idle"
    /\ received < MaxReceived
    /\ received' = received + 1
    /\ \E x_user_id \in {Some(u) : u \in DirectoryUserIds} :
        \/ \E restaurant_id \in RestaurantIds :
                req' = [req EXCEPT ![r] = NewRequest("delete_restaurant", x_user_id,
                            Some(restaurant_id), None, None, "get_current_user")]
        \/ /\ next_meal_id + PendingInserts("register_meal") <= MaxMeals
           /\ \E restaurant_id \in RestaurantIds, meal_type \in MealTypeNames,
                 menu \in Menus :
                req' = [req EXCEPT ![r] = NewRequest("register_meal", x_user_id,
                            Some(restaurant_id),
                            Some([meal_type |-> meal_type, menu |-> menu]),
                            None, "get_current_user")]
        \/ \E meal_id \in MealIds :
                req' = [req EXCEPT ![r] = NewRequest("delete_meal", x_user_id,
                            Some(meal_id), None, None, "get_current_user")]
        \/ \E meal_id \in MealIds, menu \in Menus,
              kind \in {"delete_menu", "edit_meal_menu"} :
                req' = [req EXCEPT ![r] = NewRequest(kind, x_user_id,
                            Some(meal_id), Some([menu |-> menu]),
                            None, "get_current_user")]
    /\ UNCHANGED db

\* An approval or the removal of a user arrives and is taken by the first idle
\* worker.  DELETE /users/{user_id} reads no X-User-ID header.
ReceiveUsers(r) ==
    /\ req[r].pc = "idle"
    /\ \A q \in Reqs : q < r => req[q].pc # "idle"
    /\ received < MaxReceived
    /\ received' = received + 1
    /\ \/ /\ next_restaurant_id + PendingInserts("approve") <= MaxRestaurants
          /\ \E x_user_id \in {Some(u) : u \in DirectoryUserIds},
                request_id \in DirectorySubmissionIds :
                req' = [req EXCEPT ![r] = NewRequest("approve", x_user_id,
                            Some(request_id), None, None, "get_submission_or_404")]
       \/ \E user_id \in DirectoryUserIds \cup {SubmitterId} :
                req' = [req EXCEPT ![r] = NewRequest("delete_user", None,
                            Some(user_id), None, None, "get_user")]
    /\ UNCHANGED db

\* get_restaurant_with_permission's decision for a loaded restaurant: None
\* when the restaurant is returned, else what is raised.  The owner and the
\* managers are let through by the first two operands of the `or`; for anyone
\* else the third calls check_admin_user(current_user) without its required
\* `client` argument and raises TypeError, an unhandled 500, so that the 403
\* below it is never reached.
restaurant_permission(restaurant, managers, current_user) ==
    IF restaurant.owner = current_user.id THEN None
    ELSE IF current_user.id \in managers THEN None
    ELSE Some(Response(INTERNAL_SERVER_ERROR, "TypeError"))

\* The restaurant a request is about: the one named in the path, or the one
\* of the meal it loaded.
TargetRestaurantId(r) ==
    IF req[r].kind \in {"delete_restaurant", "register_meal"}
    THEN The(req[r].request_id)
    ELSE The(req[r].meal).restaurant_id

\* get_restaurant_with_permission: the restaurant is read with its managers.
GetRestaurantWithPermission(r) ==
    /\ req[r].pc = "get_restaurant_with_permission"
    /\ LET hit == RestaurantById(TargetRestaurantId(r))
       IN  IF hit = {}
           THEN req' = Respond(r, NOT_FOUND, "restaurant_not_found")
           ELSE LET raised == restaurant_permission(The(hit), ManagersOf(The(hit).id),
                                                    The(req[r].current_user))
                IN  IF raised # None
                    THEN req' = Respond(r, The(raised).status_code, The(raised).detail)
                    ELSE req' = [req EXCEPT ![r].restaurant = Some(The(hit)),
                                            ![r].pc = "handler"]
    /\ UNCHANGED <<db, received>>

\* delete_meal, delete_menu, edit_meal_menu: the meal is read first.
GetMeal(r) ==
    /\ req[r].pc = "get_meal"
    /\ LET hit == MealById(The(req[r].request_id))
       IN  IF hit = {}
           THEN req' = Respond(r, NOT_FOUND, "meal_not_found")
           ELSE req' = [req EXCEPT ![r].meal = Some(The(hit)),
                                   ![r].pc = "get_restaurant_with_permission"]
    /\ UNCHANGED <<db, received>>

\* The DELETE matching the id against either foreign key.
deleted_operating_hours_either_key(restaurant_id) ==
    {oh \in operating_hours : \/ oh.restaurant_id = Some(restaurant_id)
                              \/ oh.submission_id = Some(restaurant_id)}

\* delete(OperatingHours).where(OperatingHours.restaurant_id == restaurant_id):
\* the rows the statement deletes.
deleted_operating_hours(restaurant_id) ==
    {oh \in operating_hours : oh.restaurant_id = Some(restaurant_id)}

\* delete_restaurant: DELETE of the restaurant's operating_hours, DELETE of
\* the restaurant, one commit.  Where foreign keys are enforced a meal of the
\* restaurant makes the DELETE fail and the RestaurantManager rows go with the
\* restaurant (ON DELETE CASCADE); elsewhere both stay as they are.
DeleteRestaurant(r) ==
    /\ req[r].pc = "handler"
    /\ req[r].kind = "delete_restaurant"
    /\ LET id == The(req[r].request_id)
       IN  \E commit_ok \in BOOLEAN :
              IF commit_ok /\ (foreign_keys => MealsOf(id) = {})
              THEN /\ operating_hours' = operating_hours \ deleted_operating_hours(id)
                   /\ Restaurant' = Restaurant \ RestaurantById(id)
                   /\ RestaurantManager' =
                         IF foreign_keys
                         THEN {m \in RestaurantManager : m.restaurant_id # id}
                         ELSE RestaurantManager
                   /\ req' = Respond(r, NO_CONTENT, "")
              ELSE /\ req' = Respond(r, INTERNAL_SERVER_ERROR, "server_error")
                   /\ UNCHANGED <<operating_hours, Restaurant, RestaurantManager>>
    /\ UNCHANGED <<User, Restaurant_submission, next_submission_id, next_restaurant_id,
                   origin, received, Meal, next_meal_id, foreign_keys>>

\* register_meal: get_meal_type, then the meal is inserted and committed.
RegisterMeal(r) ==
    /\ req[r].pc = "handler"
    /\ req[r].kind = "register_meal"
    /\ LET restaurant_id == The(req[r].request_id)
           meal_register == The(req[r].request)
       IN  IF meal_register.meal_type \notin MealTypes
           THEN /\ req' = Respond(r, NOT_FOUND, "meal_type_not_found")
                /\ UNCHANGED <<Meal, next_meal_id>>
           ELSE \E commit_ok \in BOOLEAN :
                   IF commit_ok /\ (foreign_keys => RestaurantById(restaurant_id) # {})
                   THEN /\ Meal' = Meal \cup {MealRow(next_meal_id, restaurant_id,
                                                     meal_register.meal_type,
                                                     meal_register.menu)}
                        /\ next_meal_id' = next_meal_id + 1
                        /\ req' = [Respond(r, CREATED, "meal")
                                      EXCEPT ![r].new_id = Some(next_meal_id)]
                   ELSE /\ req' = Respond(r, INTERNAL_SERVER_ERROR, "server_error")
                        /\ UNCHANGED <<Meal, next_meal_id>>
    /\ UNCHANGED <<User, Restaurant_submission, Restaurant, operating_hours,
                   next_submission_id, next_restaurant_id, origin, received,
                   RestaurantManager, foreign_keys>>

\* delete_meal -> delete_meal_transaction: DELETE of the row with the meal's
\* id (a DELETE that finds no row only warns).
DeleteMeal(r) ==
    /\ req[r].pc = "handler"
    /\ req[r].kind = "delete_meal"
    /\ \E commit_ok \in BOOLEAN :
          IF commit_ok
          THEN /\ Meal' = Meal \ MealById(The(req[r].meal).id)
               /\ req' = Respond(r, NO_CONTENT, "")
          ELSE /\ req' = Respond(r, INTERNAL_SERVER_ERROR, "server_error")
               /\ UNCHANGED Meal
    /\ UNCHANGED <<User, Restaurant_submission, Restaurant, operating_hours,
                   next_submission_id, next_restaurant_id, origin, received,
                   RestaurantManager, next_meal_id, foreign_keys>>

\* update_meal_menu_transaction: the menu computed from the loaded meal is
\* assigned; when it differs from the loaded one it is written to the row
\* with the meal's id; after the commit the row is read again; a row that is
\* gone fails the transaction.
UpdateMealMenu(r, updated_menu, code) ==
    LET stored == MealById(The(req[r].meal).id)
    IN  \E commit_ok \in BOOLEAN :
           IF commit_ok /\ stored # {}
           THEN /\ Meal' = IF updated_menu = The(req[r].meal).menu THEN Meal
                           ELSE (Meal \ stored) \cup
                                {[The(stored) EXCEPT !.menu = updated_menu]}
                /\ req' = Respond(r, code, "menu")
           ELSE /\ req' = Respond(r, INTERNAL_SERVER_ERROR, "server_error")
                /\ UNCHANGED Meal

\* delete_menu: delete_meal_menu on the loaded meal, then the transaction.
DeleteMenu(r) ==
    /\ req[r].pc = "handler"
    /\ req[r].kind = "delete_menu"
    /\ UpdateMealMenu(r, delete_meal_menu(The(req[r].meal), The(req[r].request).menu),
                      NO_CONTENT)
    /\ UNCHANGED <<User, Restaurant_submission, Restaurant, operating_hours,
                   next_submission_id, next_restaurant_id, origin, received,
                   RestaurantManager, next_meal_id, foreign_keys>>

\* edit_meal_menu: update_meal_menu on the loaded meal, then the transaction.
EditMealMenu(r) ==
    /\ req[r].pc = "handler"
    /\ req[r].kind = "edit_meal_menu"
    /\ UpdateMealMenu(r, update_meal_menu(The(req[r].meal), The(req[r].request).menu), OK)
    /\ UNCHANGED <<User, Restaurant_submission, Restaurant, operating_hours,
                   next_submission_id, next_restaurant_id, origin, received,
                   RestaurantManager, next_meal_id, foreign_keys>>

\* delete_user: the user is read.
GetUser(r) ==
    /\ req[r].pc = "get_user"
    /\ LET hit == UserById(The(req[r].request_id))
       IN  IF hit = {}
           THEN req' = Respond(r, NOT_FOUND, "user_not_found")
           ELSE req' = [req EXCEPT ![r].user = Some(The(hit)), ![r].pc = "handler"]
    /\ UNCHANGED <<db, received>>

\* delete_user: db.delete(user) and the commit.  The flush of a user who owns
\* a restaurant ends the request with 500 and nothing deleted: the unit of
\* work sets the owner of each owned restaurant to NULL (owner is NOT NULL),
\* and _user_before_delete calls restaurant.soft_delete(), a method
\* Restaurant does not have.  Otherwise the User row is deleted.  Both
\* collections of the user that reach other tables have passive_deletes=True
\* and are not loaded, so their rows are left to the database, and what
\* _user_before_delete does to restaurant.managers inside the flush is not
\* written: where foreign keys are enforced the user's RestaurantManager rows
\* and submissions are deleted with the user (ON DELETE CASCADE), which fails
\* while operating_hours rows reference a submission; elsewhere they stay.
DeleteUser(r) ==
    /\ req[r].pc = "handler"
    /\ req[r].kind = "delete_user"
    /\ LET id        == The(req[r].request_id)
           owned     == {x \in Restaurant : x.owner = id}
           submitted == {s \in Restaurant_submission : s.submitter = id}
       IN  IF owned # {}
           THEN /\ \E detail \in {"commit", "AttributeError"} :
                      req' = Respond(r, INTERNAL_SERVER_ERROR, detail)
                /\ UNCHANGED <<User, Restaurant_submission, RestaurantManager>>
           ELSE \E commit_ok \in BOOLEAN :
                   IF /\ commit_ok
                      /\ foreign_keys => \A s \in submitted : HoursOfSubmission(s.id) = {}
                   THEN /\ User' = User \ UserById(id)
                        /\ RestaurantManager' =
                              IF foreign_keys
                              THEN {m \in RestaurantManager : m.user_id # id}
                              ELSE RestaurantManager
                        /\ Restaurant_submission' =
                              IF foreign_keys THEN Restaurant_submission \ submitted
                              ELSE Restaurant_submission
                        /\ req' = Respond(r, NO_CONTENT, "")
                   ELSE /\ req' = Respond(r, INTERNAL_SERVER_ERROR, "commit")
                        /\ UNCHANGED <<User, Restaurant_submission, RestaurantManager>>
    /\ UNCHANGED <<Restaurant, operating_hours, next_submission_id, next_restaurant_id,
                   origin, received, Meal, next_meal_id, foreign_keys>>

NextDirectory ==
    \E r \in Reqs :
        \/ ReceiveDirectory(r)
        \/ GetCurrentUser(r)
        \/ InsertUser(r)
        \/ GetRestaurantWithPermission(r)
        \/ GetMeal(r)
        \/ DeleteRestaurant(r)
        \/ RegisterMeal(r)
        \/ DeleteMeal(r)
        \/ DeleteMenu(r)
        \/ EditMealMenu(r)
        \/ Send(r)

SpecDirectory == InitDirectory /\ [][NextDirectory]_vars

NextUsers ==
    \E r \in Reqs :
        \/ ReceiveUsers(r)
        \/ GetSubmissionOr404(r)
        \/ GetCurrentUser(r)
        \/ InsertUser(r)
        \/ CheckAdminUser(r)
        \/ Approval(r)
        \/ ApprovalOperatingHours(r)
        \/ GetUser(r)
        \/ DeleteUser(r)
        \/ Send(r)

SpecUsers == InitDirectory /\ [][NextUsers]_vars

\* ------------------------------------------------- listing of submissions

\* The accounts that ask for the listing: stored ones (the service account, a
\* submitter, an owner) and one not stored yet.
ListingUserIds == {ServiceId, SubmitterId, OwnerId, 4}

\* GET /restaurants/requests arrives and is taken by the first idle worker.
ReceiveListing(r) ==
    /\ req[r].pc = "idle"
    /\ \A q \in Reqs : q < r => req[q].pc # "idle"
    /\ received < MaxReceived
    /\ received' = received + 1
    /\ \E x_user_id \in {None} \cup {Some(u) : u \in ListingUserIds} :
            req' = [req EXCEPT ![r] = NewRequest("list", x_user_id, None, None,
                                                 None, "get_current_user")]
    /\ UNCHANGED db

\* restaurant_submit_get_requests: its first statement calls
\* check_admin_user(current_user, client, raise_forbidden=False);
\* check_admin_user takes (user, client) only, so the call raises TypeError
\* before any admin check is made and before either select is run: the request
\* ends as an unhandled 500 for every caller.
SubmitGetRequests(r) ==
    /\ req[r].pc = "handler"
    /\ req[r].kind = "list"
    /\ req' = Respond(r, INTERNAL_SERVER_ERROR, "TypeError")
    /\ UNCHANGED <<db, received>>

NextListing ==
    \E r \in Reqs :
        \/ ReceiveListing(r)
        \/ GetCurrentUser(r)
        \/ InsertUser(r)
        \/ SubmitGetRequests(r)
        \/ Send(r)

SpecListing == InitDirectory /\ [][NextListing]_vars

\* ------------------------------------------------------------ meal menus

\* The menu items of the requests here, and the longest menu a register
\* request and the longest list an edit or delete request carries.
MenuItems == {"rice", "soup"}
MaxMenuLen == 3
MaxEditLen == 2

\* MealRegister.menu and MenuEdit.menu are list[str] with no further
\* validation: any list of items, with repetitions, the empty one included.
MenuLists == UNION {[1..n -> MenuItems] : n \in 0..MaxMenuLen}
EditLists == UNION {[1..n -> MenuItems] : n \in 0..MaxEditLen}

\* The owner of restaurant 1 registers a meal for it, or edits or deletes
\* menu items of a meal; the request is taken by the first idle worker.
ReceiveMenus(r) ==
    /\ req[r].pc = "idle"
    /\ \A q \in Reqs : q < r => req[q].pc # "idle"
    /\ received < MaxReceived
    /\ received' = received + 1
    /\ \/ /\ next_meal_id + PendingInserts("register_meal") <= MaxMeals
          /\ \E menu \in MenuLists :
                req' = [req EXCEPT ![r] = NewRequest("register_meal", Some(OwnerId),
                            Some(1), Some([meal_type |-> "lunch", menu |-> menu]),
                            None, "get_current_user")]
       \/ \E meal_id \in MealIds, menu \in EditLists,
             kind \in {"delete_menu", "edit_meal_menu"} :
                req' = [req EXCEPT ![r] = NewRequest(kind, Some(OwnerId),
                            Some(meal_id), Some([menu |-> menu]),
                            None, "get_current_user")]
    /\ UNCHANGED db

NextMenus ==
    \E r \in Reqs :
        \/ ReceiveMenus(r)
        \/ GetCurrentUser(r)
        \/ GetRestaurantWithPermission(r)
        \/ GetMeal(r)
        \/ RegisterMeal(r)
        \/ DeleteMenu(r)
        \/ EditMealMenu(r)
        \/ Send(r)

SpecMenus == InitDirectory /\ [][NextMenus]_vars

\* The entries of the restaurant data file sync_restaurants reads at start-up:
\* one restaurant the database does not hold yet.
RestaurantData ==
    {[id |-> 2, name |-> "Canteen", owner |-> ServiceId,
      establishment_type |-> "student", is_campus |-> TRUE,
      building_name |-> None, naver_map_link |-> None, kakao_map_link |-> None,
      latitude |-> None, longitude |-> None]}

\* sync_restaurants, run by the lifespan whenever the service starts (no
\* request is in flight then): each entry of the data file updates the row
\* with its id, or is inserted when no row has it; one commit.  Reading the
\* file may fail (no path configured, no file), and so may the commit; the
\* exception is logged and nothing is written.
SyncRestaurants ==
    /\ \A r \in Reqs : req[r].pc = "idle"
    /\ \E read_ok \in BOOLEAN, commit_ok \in BOOLEAN :
          IF /\ read_ok /\ commit_ok
             /\ foreign_keys => \A entry \in RestaurantData : UserById(entry.owner) # {}
          THEN /\ Restaurant' =
                     {x \in Restaurant : \A entry \in RestaurantData : entry.id # x.id}
                     \cup RestaurantData
               /\ next_restaurant_id' =
                     IF \E entry \in RestaurantData : entry.id >= next_restaurant_id
                     THEN 1 + CHOOSE id \in {entry.id : entry \in RestaurantData} :
                                 \A entry \in RestaurantData : entry.id <= id
                     ELSE next_restaurant_id
          ELSE UNCHANGED <<Restaurant, next_restaurant_id>>
    /\ UNCHANGED <<req, User, Restaurant_submission, operating_hours,
                   next_submission_id, origin, received, directory>>

NextLifespan ==
    \/ SyncRestaurants
    \/ NextUsers

SpecLifespan == InitDirectory /\ [][NextLifespan]_vars

\* -------------------------------------------------------------- observations

\* isAdmin of the permission rules: the stored meal_admin flag, or the user
\* service's global-admin designation.
IsAdmin(user_id) ==
    \/ user_id \in GlobalAdmins
    \/ \E u \in User : u.id = user_id /\ u.meal_admin

\* The request in slot r has been answered with this status code.
Answered(r, code) ==
    /\ req[r].pc = "respond"
    /\ The(req[r].response).status_code = code

\* The Restaurant rows created from submission id, by the history of approvals.
RestaurantsFrom(id) == {x \in Restaurant : <<x.id, id>> \in origin}

\* The type, start and end of a set of operating_hours rows.
Slots(rows) == {<<oh.type, oh.start_time, oh.end_time>> : oh \in rows}

\* --------------------------------------------------------------------- C1

\* C1: in every step the stored status of a submission changes only from
\* pending (to approved or rejected); a terminal status never changes again.
C1_StatusLeavesOnlyPending ==
    [][\A s \in Restaurant_submission : \A t \in Restaurant_submission' :
          (s.id = t.id /\ s.status # t.status)
              => /\ s.status = "pending"
                 /\ t.status \in {"approved", "rejected"}]_vars

\* --------------------------------------------------------------------- C2

\* C2: an approve and a reject of the same submission never both report
\* success, and no Restaurant exists for a submission whose status is rejected.
C2_ApproveAndRejectNotBoth ==
    /\ \A a \in Reqs, b \in Reqs :
          ~(/\ req[a].kind = "approve" /\ req[b].kind = "reject"
            /\ req[a].request_id = req[b].request_id
            /\ Answered(a, OK) /\ Answered(b, NO_CONTENT))
    /\ \A s \in Restaurant_submission :
          s.status = "rejected" => RestaurantsFrom(s.id) = {}

\* --------------------------------------------------------------------- C3

\* C3: at most one Restaurant has ever been created from one submission.
C3_AtMostOneRestaurantPerSubmission ==
    \A p \in origin, q \in origin : p[2] = q[2] => p = q

\* --------------------------------------------------------------------- C4

\* C4: an approve answered with an error has applied nothing: no Restaurant
\* row created by that attempt exists and no operating_hours row is bound to
\* one.
C4_FailedApprovalAppliesNothing ==
    \A r \in Reqs :
        (req[r].kind = "approve" /\ Answered(r, INTERNAL_SERVER_ERROR))
            => /\ \A x \in Restaurant : Some(x.id) # req[r].new_id
               /\ \A oh \in operating_hours :
                     oh.restaurant_id = None \/ oh.restaurant_id # req[r].new_id

\* --------------------------------------------------------------------- C5

\* C5: every approved submission has exactly one Restaurant created from it,
\* with the submission's fields, the submitter as owner, and operating_hours
\* rows of the same types and times as the submission's.
C5_ApprovedHasItsRestaurant ==
    \A s \in Restaurant_submission :
        s.status = "approved"
            => /\ Cardinality(RestaurantsFrom(s.id)) = 1
               /\ \A x \in RestaurantsFrom(s.id) :
                     /\ x = new_restaurant(x.id, s)
                     /\ x.owner = s.submitter
                     /\ Slots(HoursOfRestaurant(x.id)) = Slots(HoursOfSubmission(s.id))
                     /\ Cardinality(HoursOfRestaurant(x.id))
                            = Cardinality(HoursOfSubmission(s.id))

\* --------------------------------------------------------------------- C6

\* Exactly one of the two foreign keys of an operating_hours row is set.
OneParent(oh) == (oh.restaurant_id = None) # (oh.submission_id = None)

\* C6: every stored operating_hours row has exactly one of restaurant_id and
\* submission_id set, and so has every entry a submit request (through
\* build_operating_hours_entries) or an approve request (through its copy) is
\* about to add.
C6_ExactlyOneParent ==
    /\ \A oh \in operating_hours : OneParent(oh)
    /\ \A r \in Reqs :
          (req[r].pc = "operating_hours" /\ req[r].kind = "submit")
              => \A oh \in build_operating_hours_entries(
                               operation_hours_dict(The(req[r].request)),
                               req[r].new_id, None).entries : OneParent(oh)
    /\ \A r \in Reqs :
          (req[r].pc = "operating_hours" /\ req[r].kind = "approve")
              => \A oh \in approval_operating_hours_entries(
                               HoursOfSubmission(The(req[r].request_id)),
                               The(req[r].new_id)) : OneParent(oh)

\* C6 witness: both creators have written: the table holds a row bound to a
\* submission and a row bound to a restaurant.
C6_BothCreatorsWrote ==
    /\ \E oh \in operating_hours : oh.submission_id # None
    /\ \E oh \in operating_hours : oh.restaurant_id # None

\* --------------------------------------------------------------------- C7

\* Slot r holds an approve or reject whose actor is not an admin.
NonAdminReview(r) ==
    /\ req[r].kind \in {"approve", "reject"}
    /\ req[r].x_user_id # None
    /\ ~IsAdmin(The(req[r].x_user_id))

\* C7: an approve or reject by a non-admin never reaches its handler and is
\* never answered with success; once the admin check has been made for it on
\* an existing submission the answer is 403, unless the user service failed
\* to answer the global-admin lookup (500); and no step of such a request
\* changes a submission, a restaurant or an operating_hours row.
C7_NonAdminReviewDenied ==
    /\ [](\A r \in Reqs :
            NonAdminReview(r)
                => /\ req[r].pc \notin {"handler", "operating_hours"}
                   /\ ~Answered(r, OK) /\ ~Answered(r, NO_CONTENT)
                   /\ (req[r].pc = "respond" /\ req[r].submission # None
                                             /\ req[r].current_user # None)
                         => \/ Answered(r, FORBIDDEN)
                            \/ req[r].response = Some(Response(INTERNAL_SERVER_ERROR,
                                                               "is_global_admin")))
    /\ [][\A r \in Reqs :
            ((NonAdminReview(r) \/ NonAdminReview(r)') /\ req'[r] # req[r])
                => UNCHANGED <<Restaurant_submission, Restaurant, operating_hours>>]_vars

\* C7 witness: the submitter, who is no admin, asked to approve or reject the
\* own pending submission and was answered 403, the submission still pending.
C7_SubmitterWasDenied ==
    \E r \in Reqs :
        /\ NonAdminReview(r)
        /\ Answered(r, FORBIDDEN)
        /\ req[r].submission # None
        /\ The(req[r].submission).submitter = The(req[r].x_user_id)
        /\ \E s \in SubmissionById(The(req[r].request_id)) :
              s.status = "pending" /\ s.reviewer = None

\* --------------------------------------------------------------------- C8

\* C8: a submission is never stored without its operating_hours rows (every
\* stored submission carried an opening_time slot), and a submit answered
\* with an error has left no RestaurantSubmission row behind.
C8_SubmissionComesWithItsHours ==
    /\ \A s \in Restaurant_submission : HoursOfSubmission(s.id) # {}
    /\ \A r \in Reqs :
          (req[r].kind = "submit" /\ req[r].pc = "respond"
                                  /\ ~Answered(r, CREATED))
              => \A s \in Restaurant_submission : Some(s.id) # req[r].new_id

\* --------------------------------------------------------------------- C9

\* C9: no step removes a submission whose status is approved or rejected, nor
\* any operating_hours row bound to one.
C9_OnlyPendingIsDeleted ==
    [][\A s \in Restaurant_submission :
          s.status # "pending"
              => /\ \E t \in Restaurant_submission' : t.id = s.id
                 /\ HoursOfSubmission(s.id) \subseteq operating_hours']_vars

\* -------------------------------------------------------------------- C10

\* C10: a get or delete of an existing submission by a known user is answered
\* 403 exactly when the actor is neither the submitter nor an admin, and the
\* submitter and the admins are not answered with an error raised by the
\* permission check itself.
C10_ViewDeleteIffSubmitterOrAdmin ==
    \A r \in Reqs :
        (/\ req[r].kind \in {"get", "delete"}
         /\ req[r].pc = "respond"
         /\ req[r].current_user # None
         /\ ~Answered(r, NOT_FOUND))
            => \A s \in SubmissionById(The(req[r].request_id)) :
                  LET actor   == The(req[r].current_user).id
                      allowed == actor = s.submitter \/ IsAdmin(actor)
                  IN  /\ Answered(r, FORBIDDEN) <=> ~allowed
                      /\ allowed => req[r].response
                                       # Some(Response(INTERNAL_SERVER_ERROR, "TypeError"))

\* -------------------------------------------------------------------- C11

\* The kinds of request that delete a restaurant or change its meals.
RestaurantKinds ==
    {"delete_restaurant", "register_meal", "delete_meal", "delete_menu", "edit_meal_menu"}

\* Slot r holds a request on a restaurant that has been answered after the
\* actor was read and, for a request on a meal, the meal was found.
AnsweredOnRestaurant(r) ==
    /\ req[r].kind \in RestaurantKinds
    /\ req[r].pc = "respond"
    /\ req[r].current_user # None
    /\ req[r].kind \in {"delete_meal", "delete_menu", "edit_meal_menu"}
          => req[r].meal # None

\* C11: a restaurant deletion or meal mutation on a stored restaurant is
\* answered 403 exactly when the actor is neither the owner, a manager nor an
\* admin, and the owner, the managers and the admins are not answered with an
\* error raised by the permission check itself.
C11_MutateIffOwnerManagerOrAdmin ==
    \A r \in Reqs :
        AnsweredOnRestaurant(r)
            => \A x \in RestaurantById(TargetRestaurantId(r)) :
                  LET actor   == The(req[r].current_user).id
                      allowed == \/ actor = x.owner
                                 \/ actor \in ManagersOf(x.id)
                                 \/ IsAdmin(actor)
                  IN  /\ Answered(r, FORBIDDEN) <=> ~allowed
                      /\ allowed => req[r].response
                                       # Some(Response(INTERNAL_SERVER_ERROR, "TypeError"))

\* -------------------------------------------------------------------- C12

\* The answer of a request whose global-admin lookup failed.
LookupError == Some(Response(INTERNAL_SERVER_ERROR, "is_global_admin"))

\* C12: the admin check of a user whose meal_admin is false changes no table
\* and ends in one of three ways: the handler is entered and the user is a
\* global admin, or the answer is 403, or the answer is the lookup error; and
\* the lookup error is only ever the answer of a request that was at the
\* admin check, given in a step that changes no table.
C12_AdminCheckFailsClosed ==
    [][\A r \in Reqs :
          /\ (/\ req[r].pc = "check_admin_user"
              /\ req'[r] # req[r]
              /\ ~The(req[r].current_user).meal_admin)
                => /\ UNCHANGED db
                   /\ \/ /\ req'[r].pc = "handler"
                         /\ The(req[r].current_user).id \in GlobalAdmins
                      \/ /\ req'[r].pc = "respond"
                         /\ \/ The(req'[r].response).status_code = FORBIDDEN
                            \/ req'[r].response = LookupError
          /\ (req'[r].response = LookupError /\ req[r].response # LookupError)
                => /\ req[r].pc = "check_admin_user"
                   /\ ~The(req[r].current_user).meal_admin
                   /\ UNCHANGED db]_vars

\* C12 witness: an approve or reject by a user without meal_admin has been
\* answered with the lookup error, and the submission it names is still
\* pending with no reviewer.
C12_LookupFailedNothingDone ==
    \E r \in Reqs :
        /\ req[r].kind \in {"approve", "reject"}
        /\ req[r].pc = "respond"
        /\ req[r].response = LookupError
        /\ ~The(req[r].current_user).meal_admin
        /\ \E s \in SubmissionById(The(req[r].request_id)) :
              s.status = "pending" /\ s.reviewer = None

\* -------------------------------------------------------------------- C15

\* C15: a reject with an empty message that names a stored submission is
\* answered 400 whoever the actor is (unless the user service failed to answer
\* the global-admin lookup), and the stored submission is as the request
\* loaded it.
C15_EmptyMessageIsValidationError ==
    \A r \in Reqs :
        (/\ req[r].kind = "reject"
         /\ req[r].message = Some("")
         /\ req[r].pc = "respond"
         /\ req[r].submission # None
         /\ req[r].current_user # None
         /\ req[r].response # LookupError)
            => /\ Answered(r, BAD_REQUEST)
               /\ \A s \in SubmissionById(The(req[r].request_id)) :
                     s.status = "pending" => s = The(req[r].submission)

\* -------------------------------------------------------------------- C13

\* C13: the owner of every stored Restaurant is the id of a stored User.
C13_OwnerIsAStoredUser ==
    \A x \in Restaurant : UserById(x.owner) # {}

\* -------------------------------------------------------------------- C14

\* C14: once the removal of a user has been answered with success, no
\* RestaurantManager row names that user, and every restaurant the directory
\* started with is stored with the fields and operating hours it started with.
C14_RemovalTakesTheUserOutOfManagers ==
    \A r \in Reqs :
        (req[r].kind = "delete_user" /\ Answered(r, NO_CONTENT))
            => /\ \A m \in RestaurantManager : m.user_id # The(req[r].request_id)
               /\ new_restaurant(1, SeedSubmission1) \in Restaurant
               /\ HoursOfRestaurant(1)
                     = approval_operating_hours_entries(
                           SeedSubmissionHours(1, SeedRequest1), 1)

\* -------------------------------------------------------------------- C16

\* C16: a stored submission has a non-empty rejection_message exactly when its
\* status is rejected.
C16_MessageIffRejected ==
    \A s \in Restaurant_submission :
        (s.rejection_message # None /\ s.rejection_message # Some(""))
            <=> s.status = "rejected"

\* -------------------------------------------------------------------- C17

\* C17: a pending submission has neither reviewer nor reviewed_time, and the
\* reviewed_time of a reviewed submission is not the time of its insertion.
C17_ReviewFieldsSetByTheReview ==
    \A s \in Restaurant_submission :
        /\ s.status = "pending" => (s.reviewer = None /\ s.reviewed_time = None)
        /\ s.status # "pending" => /\ s.reviewer # None
                                   /\ s.reviewed_time # None
                                   /\ s.reviewed_time # Some(s.submitted_time)

\* -------------------------------------------------------------------- C18

\* C18: the step that resolves the target of a get or delete of a submission
\* answers 404 exactly when no submission with the id is stored, whoever the
\* actor is, and answers 403 when the submission is stored and the actor is
\* neither its submitter nor an admin.
C18_NotFoundApartFromDenied ==
    [][\A r \in Reqs :
          (req[r].pc = "get_submission_with_permission" /\ req'[r] # req[r])
              => LET hit   == SubmissionById(The(req[r].request_id))
                     actor == The(req[r].current_user).id
                 IN  /\ (req'[r].pc = "respond"
                           /\ The(req'[r].response).status_code = NOT_FOUND)
                        <=> hit = {}
                     /\ \A s \in hit :
                           (actor # s.submitter /\ ~IsAdmin(actor))
                              => /\ req'[r].pc = "respond"
                                 /\ The(req'[r].response).status_code = FORBIDDEN]_vars

\* -------------------------------------------------------------------- C19

\* A present slot of the request parses and its start is not before its end.
HasSlotNotBeforeEnd(request) ==
    \E key \in SlotTypes :
        /\ request[key] # None
        /\ LET start == get_datetime_by_string(The(request[key]).start)
               end   == get_datetime_by_string(The(request[key]).end)
           IN  start # None /\ end # None /\ The(start) >= The(end)

\* C19: a submit whose request has a slot with start not before end is never
\* answered with success, and once its slots have been looked at (the
\* submission row was written, so storage did not fail) it is answered 400.
C19_StartNotBeforeEndIsValidationError ==
    \A r \in Reqs :
        (/\ req[r].kind = "submit"
         /\ req[r].pc = "respond"
         /\ HasSlotNotBeforeEnd(The(req[r].request)))
            => /\ ~Answered(r, CREATED)
               /\ req[r].new_id # None => Answered(r, BAD_REQUEST)

\* -------------------------------------------------------------------- C20

\* C20: the handler step of a submit whose request lacks location or
\* opening_time answers 400 and changes neither Restaurant_submission nor
\* operating_hours; the handler step of any other submit either fails with
\* 500, changing neither table, or adds exactly one submission, pending, with
\* the requesting user as submitter; and a submit is answered 201 only after
\* such a row was added for it.
C20_RequiredFieldsThenPendingSubmission ==
    [][\A r \in Reqs :
          /\ (req[r].kind = "submit" /\ req[r].pc = "handler" /\ req'[r] # req[r])
                => LET request == The(req[r].request)
                   IN  IF request.location = None \/ request.opening_time = None
                       THEN /\ req'[r].pc = "respond"
                            /\ The(req'[r].response).status_code = BAD_REQUEST
                            /\ UNCHANGED <<Restaurant_submission, operating_hours>>
                       ELSE \/ /\ req'[r].pc = "respond"
                               /\ The(req'[r].response).status_code = INTERNAL_SERVER_ERROR
                               /\ UNCHANGED <<Restaurant_submission, operating_hours>>
                            \/ /\ UNCHANGED operating_hours
                               /\ \E s \in Restaurant_submission' :
                                     /\ s \notin Restaurant_submission
                                     /\ Restaurant_submission'
                                           = Restaurant_submission \cup {s}
                                     /\ s.status = "pending"
                                     /\ Some(s.submitter) = req[r].x_user_id
                                     /\ req'[r].new_id = Some(s.id)
          /\ (/\ req'[r].kind = "submit" /\ req'[r].pc = "respond"
              /\ The(req'[r].response).status_code = CREATED
              /\ req'[r] # req[r])
                => /\ req[r].pc = "operating_hours"
                   /\ req[r].new_id # None
                   /\ ~required_fields_missing(The(req[r].request))]_vars

\* C20 witness: one submit lacking a required field has been answered 400,
\* another has been answered 201, and the only stored submission is the
\* second one's, pending, with its actor as submitter and with its hours.
C20_OneRefusedOneStored ==
    \E a \in Reqs, b \in Reqs :
        /\ req[a].kind = "submit" /\ Answered(a, BAD_REQUEST)
        /\ required_fields_missing(The(req[a].request))
        /\ req[b].kind = "submit" /\ Answered(b, CREATED)
        /\ \A s \in Restaurant_submission :
              /\ Some(s.id) = req[b].new_id
              /\ s.status = "pending"
              /\ Some(s.submitter) = req[b].x_user_id
        /\ Restaurant_submission # {}
        /\ HoursOfSubmission(The(req[b].new_id)) = operating_hours
        /\ operating_hours # {}

\* -------------------------------------------------------------------- C21

SubmissionHours == {oh \in operating_hours : oh.submission_id # None}

\* C22: no step of an approve changes the operating_hours rows bound to a
\* submission; the rows it adds are bound to the restaurant it created and to
\* no submission; and the step that answers the approve with success leaves
\* that restaurant with rows of the same types and times as the submission's.
C22_ApproveLeavesSubmissionHours ==
    [][\A r \in Reqs :
          (req[r].kind = "approve" /\ req'[r] # req[r])
              => /\ SubmissionHours' = SubmissionHours
                 /\ operating_hours \subseteq operating_hours'
                 /\ \A oh \in operating_hours' \ operating_hours :
                       /\ oh.submission_id = None
                       /\ oh.restaurant_id = req[r].new_id
                 /\ (req'[r].pc = "respond"
                       /\ The(req'[r].response).status_code = OK)
                       => Slots(HoursOfRestaurant(The(req[r].new_id)))'
                             = Slots(HoursOfSubmission(The(req[r].request_id)))]_vars

\* C22 witness: an approve has been answered with success; the submission
\* still has its rows, none of them bound to a restaurant, and the restaurant
\* has rows of its own with the same types and times.
C22_ApprovedWithBothSetsOfHours ==
    \E r \in Reqs :
        /\ req[r].kind = "approve"
        /\ Answered(r, OK)
        /\ HoursOfSubmission(The(req[r].request_id)) # {}
        /\ \A oh \in HoursOfSubmission(The(req[r].request_id)) : oh.restaurant_id = None
        /\ HoursOfRestaurant(The(req[r].new_id)) # {}
        /\ Slots(HoursOfRestaurant(The(req[r].new_id)))
              = Slots(HoursOfSubmission(The(req[r].request_id)))

\* -------------------------------------------------------------------- C23

\* C23: no step of a reject changes Restaurant or operating_hours, adds or
\* removes a submission, or changes a submission other than the one it names;
\* of that one it changes nothing but status, reviewer, reviewed_time and
\* rejection_message.
C23_RejectCopiesNothing ==
    [][\A r \in Reqs :
          (req[r].kind = "reject" /\ req'[r] # req[r])
              => /\ UNCHANGED <<Restaurant, operating_hours, origin>>
                 /\ {s.id : s \in Restaurant_submission}
                       = {t.id : t \in Restaurant_submission'}
                 /\ \A s \in Restaurant_submission : \A t \in Restaurant_submission' :
                       s.id = t.id
                          => IF Some(s.id) = req[r].request_id
                             THEN t = [s EXCEPT !.status = t.status,
                                                !.reviewer = t.reviewer,
                                                !.reviewed_time = t.reviewed_time,
                                                !.rejection_message = t.rejection_message]
                             ELSE t = s]_vars

\* C23 witness: a reject has been answered with success and the submission
\* is stored as the request loaded it but for status, reviewer and message.
C23_RejectedInPlace ==
    \E r \in Reqs :
        /\ req[r].kind = "reject"
        /\ Answered(r, NO_CONTENT)
        /\ \E s \in SubmissionById(The(req[r].request_id)) :
              /\ s.status = "rejected"
              /\ s.rejection_message = req[r].message
              /\ s = rejected(The(req[r].submission), The(req[r].current_user),
                              The(req[r].message))
        /\ operating_hours # {}

\* -------------------------------------------------------------------- C24

\* C24: every stored operating_hours row is bound to a stored submission or
\* to a stored restaurant.
C24_HoursHaveAStoredParent ==
    \A oh \in operating_hours :
        /\ oh.submission_id # None => SubmissionById(The(oh.submission_id)) # {}
        /\ oh.restaurant_id # None
              => \E x \in Restaurant : x.id = The(oh.restaurant_id)

\* -------------------------------------------------------------------- C25

\* C25: a delete and an approve that both loaded the same submission while it
\* was pending never both take effect: they are not both answered with
\* success, and a Restaurant created from the submission does not stand
\* beside the submission's deletion.
C25_DeleteAndApproveNotBoth ==
    \A a \in Reqs, b \in Reqs :
        (/\ req[a].kind = "delete" /\ req[b].kind = "approve"
         /\ req[a].request_id = req[b].request_id
         /\ req[a].submission # None /\ req[b].submission # None
         /\ The(req[a].submission).status = "pending"
         /\ The(req[b].submission).status = "pending")
            => /\ ~(Answered(a, NO_CONTENT) /\ Answered(b, OK))
               /\ Answered(a, NO_CONTENT)
                     => RestaurantsFrom(The(req[a].request_id)) = {}

\* -------------------------------------------------------------------- C26

C27_ListingIsAnswered ==
    \A r \in Reqs :
        (/\ req[r].kind = "list"
         /\ req[r].pc = "respond"
         /\ req[r].current_user # None)
            => The(req[r].response).status_code = OK

\* -------------------------------------------------------------------- C28

\* The slots a request carries.
PresentSlots(request) ==
    {key \in SlotTypes : operation_hours_dict(request)[key] # None}

\* The time range reads as two times of day, the start before the end.
SlotValidates(value) ==
    LET start == get_datetime_by_string(value.start)
        end   == get_datetime_by_string(value.end)
    IN  /\ start # None
        /\ end # None
        /\ The(start) < The(end)

\* Slot r holds a submit request about to build and store its batch of hours.
BuildsHours(r) == req[r].pc = "operating_hours" /\ req[r].kind = "submit"

HasFailingSlot(request) ==
    \E key \in PresentSlots(request) :
        ~SlotValidates(The(operation_hours_dict(request)[key]))

\* C28: for the batch of a submit request, (1) when a present slot does not
\* validate the builder raises with no entry, and the step stores no
\* operating_hours row; (2) when every present slot validates the builder
\* returns one entry per present slot and none for an absent slot, each with
\* the slot's type, the slot's start and end as times of day, the
\* submission's id as submission_id and no restaurant_id, and a step that
\* answers 201 stored exactly these entries.
C28_BatchAllOrNothing ==
    /\ [](\A r \in Reqs :
            BuildsHours(r) =>
                LET request == The(req[r].request)
                    dict    == operation_hours_dict(request)
                    built   == build_operating_hours_entries(dict, req[r].new_id, None)
                IN  IF HasFailingSlot(request)
                    THEN built.exc # None /\ built.entries = {}
                    ELSE /\ built.exc = None
                         /\ Cardinality(built.entries)
                               = Cardinality(PresentSlots(request))
                         /\ \A e \in built.entries :
                               /\ e.type \in PresentSlots(request)
                               /\ get_datetime_by_string(e.start_time)
                                    = get_datetime_by_string(The(dict[e.type]).start)
                               /\ get_datetime_by_string(e.end_time)
                                    = get_datetime_by_string(The(dict[e.type]).end)
                               /\ e.submission_id = req[r].new_id
                               /\ e.restaurant_id = None)
    /\ [][\A r \in Reqs :
            (BuildsHours(r) /\ req'[r] # req[r]) =>
                LET request == The(req[r].request)
                    built   == build_operating_hours_entries(
                                   operation_hours_dict(request), req[r].new_id, None)
                IN  /\ HasFailingSlot(request) =>
                          /\ operating_hours' = operating_hours
                          /\ The(req'[r].response).status_code # CREATED
                    /\ The(req'[r].response).status_code = CREATED =>
                          /\ built.entries \subseteq operating_hours'
                          /\ operating_hours' \ operating_hours \subseteq built.entries
                    /\ The(req'[r].response).status_code # CREATED =>
                          operating_hours' = operating_hours]_vars

\* C28 witness: a submit request with two present slots has been answered
\* 201 and the table holds exactly two rows of its submission, one of each
\* slot's type.
C28_TwoSlotsStoredAsTwoRows ==
    \E r \in Reqs :
        /\ req[r].kind = "submit"
        /\ req[r].pc = "respond"
        /\ The(req[r].response).status_code = CREATED
        /\ PresentSlots(The(req[r].request)) = {"opening_time", "lunch_time"}
        /\ {oh.type : oh \in {x \in operating_hours :
                                 x.submission_id = req[r].new_id}}
              = {"opening_time", "lunch_time"}
        /\ Cardinality({x \in operating_hours : x.submission_id = req[r].new_id}) = 2

\* -------------------------------------------------------------------- C29

\* C29: when get_current_user finds the user id not stored and leaves
\* without an answer of the user service, the request is answered 500 with no
\* user attached to it, and that step changes no row of any table.
C29_FailedLookupStoresNothing ==
    [][\A r \in Reqs :
          (/\ req[r].pc = "get_current_user"
           /\ req'[r] # req[r]
           /\ req[r].x_user_id # None
           /\ UserById(The(req[r].x_user_id)) = {}
           /\ req'[r].user_info = None)
              => /\ req'[r].pc = "respond"
                 /\ The(req'[r].response).status_code = INTERNAL_SERVER_ERROR
                 /\ req'[r].current_user = None
                 /\ req'[r].new_id = None
                 /\ UNCHANGED db]_vars

\* C29 witness: a submit request of a user id that is not stored was answered
\* 500 by the failed lookup; the id is still not stored and no submission is.
C29_LookupFailedNothingStored ==
    \E r \in Reqs :
        /\ req[r].kind = "submit"
        /\ req[r].pc = "respond"
        /\ req[r].response = Some(Response(INTERNAL_SERVER_ERROR, "get_user_info"))
        /\ UserById(The(req[r].x_user_id)) = {}
        /\ Restaurant_submission = {}

\* -------------------------------------------------------------------- C30

\* C30: the submitter of every stored submission is a stored user (removing a
\* user removes the submissions that user submitted).
C30_SubmitterIsAStoredUser ==
    \A s \in Restaurant_submission : UserById(s.submitter) # {}

\* -------------------------------------------------------------------- C31

\* C31: the restaurant_id of every stored meal is the id of a stored
\* restaurant (no meal is left behind by the deletion of its restaurant).
C31_MealHasAStoredRestaurant ==
    \A m \in Meal : RestaurantById(m.restaurant_id) # {}

\* -------------------------------------------------------------------- C32

\* C32: the step of delete_restaurant that ends the request changes no
\* submission and no operating_hours row bound to a submission; answered 204
\* it has removed the restaurant with that id and exactly the operating_hours
\* rows whose restaurant_id is that id; answered otherwise it has removed
\* neither.
C32_DeleteRestaurantAndItsHoursOnly ==
    [][\A r \in Reqs :
          (/\ req[r].pc = "handler"
           /\ req[r].kind = "delete_restaurant"
           /\ req'[r] # req[r])
              => LET id == The(req[r].request_id)
                 IN  /\ Restaurant_submission' = Restaurant_submission
                     /\ {oh \in operating_hours' : oh.submission_id # None}
                           = {oh \in operating_hours : oh.submission_id # None}
                     /\ IF The(req'[r].response).status_code = NO_CONTENT
                        THEN /\ Restaurant' = {x \in Restaurant : x.id # id}
                             /\ operating_hours' =
                                   {oh \in operating_hours : oh.restaurant_id # Some(id)}
                        ELSE /\ Restaurant' = Restaurant
                             /\ operating_hours' = operating_hours]_vars

\* C32 witness: restaurant 1 was deleted by a request answered 204: neither
\* the restaurant nor a row of its hours is stored, while the approved
\* submission it came from and the hours of that submission are.
C32_RestaurantGoneSubmissionKept ==
    \E r \in Reqs :
        /\ req[r].kind = "delete_restaurant"
        /\ req[r].pc = "respond"
        /\ The(req[r].response).status_code = NO_CONTENT
        /\ RestaurantById(The(req[r].request_id)) = {}
        /\ \A oh \in operating_hours : oh.restaurant_id # req[r].request_id
        /\ \E p \in origin :
              /\ p[1] = The(req[r].request_id)
              /\ \E s \in SubmissionById(p[2]) : s.status = "approved"
              /\ HoursOfSubmission(p[2]) # {}

\* -------------------------------------------------------------------- C33

\* The items of a list, and where an item first stands in it.
Items(list) == {list[k] : k \in 1..Len(list)}
FirstIndex(x, list) == CHOOSE k \in 1..Len(list) :
                          list[k] = x /\ \A j \in 1..(k - 1) : list[j] # x

\* Slot r holds an edit of a meal's menu with the meal loaded.
EditsMenu(r) == req[r].pc = "handler" /\ req[r].kind = "edit_meal_menu"

\* C33: for the loaded meal and the edit list of an edit request,
\* update_meal_menu returns the menu as it was, in its order, followed by the
\* requested items that were not in it, each once and in the order of their
\* first request; applied to that result the same edit list returns it
\* unchanged; and an edit whose commit changed table meal has stored exactly
\* this result in the row of that meal and changed no other row.
C33_EditAppendsNewItemsOnce ==
    /\ [](\A r \in Reqs :
            EditsMenu(r) =>
                LET meal  == The(req[r].meal)
                    edit  == The(req[r].request).menu
                    once  == update_meal_menu(meal, edit)
                    added == SubSeq(once, Len(meal.menu) + 1, Len(once))
                IN  /\ Len(once) >= Len(meal.menu)
                    /\ SubSeq(once, 1, Len(meal.menu)) = meal.menu
                    /\ Items(added) = Items(edit) \ Items(meal.menu)
                    /\ Len(added) = Cardinality(Items(added))
                    /\ \A i \in 1..Len(added), j \in 1..Len(added) :
                          i < j => FirstIndex(added[i], edit) < FirstIndex(added[j], edit)
                    /\ update_meal_menu([meal EXCEPT !.menu = once], edit) = once)
    /\ [][\A r \in Reqs :
            (/\ EditsMenu(r)
             /\ req'[r] # req[r]
             /\ Meal' # Meal)
                => LET meal == The(req[r].meal)
                       once == update_meal_menu(meal, The(req[r].request).menu)
                   IN  /\ \E m \in Meal' : m.id = meal.id /\ m.menu = once
                       /\ {m \in Meal' : m.id # meal.id} = {m \in Meal : m.id # meal.id}]_vars

\* C33 witness: an edit that asked for an item the menu had and one it had
\* not has committed, and the stored menu is the loaded one followed by the
\* item it had not.
C33_EditedWithOldAndNewItem ==
    \E r \in Reqs :
        /\ req[r].kind = "edit_meal_menu"
        /\ req[r].pc = "respond"
        /\ req[r].meal # None
        /\ LET meal == The(req[r].meal)
               edit == The(req[r].request).menu
           IN  /\ Items(edit) \cap Items(meal.menu) # {}
               /\ \E y \in Items(edit) \ Items(meal.menu) :
                     \E m \in Meal : m.id = meal.id /\ m.menu = Append(meal.menu, y)

\* -------------------------------------------------------------------- C34

\* C34: for the loaded meal and the delete list of a delete_menu request, the
\* menu delete_meal_menu returns contains none of the requested items,
\* however often the menu held them.
C34_DeletedItemsAreGone ==
    \A r \in Reqs :
        (req[r].pc = "handler" /\ req[r].kind = "delete_menu")
            => Items(delete_meal_menu(The(req[r].meal), The(req[r].request).menu))
                  \cap Items(The(req[r].request).menu) = {}

====
